---------------------------- MODULE Spec2Model ----------------------------
(***************************************************************************)
(* Model of the Saudi market trading assistant: the price pipeline         *)
(* (fetch_price_data, calculate_technical_indicators in its two variants), *)
(* the volume analyser (analyze_volume_patterns), the market score         *)
(* combinator (calculate_market_score) and the per-symbol loop of main.    *)
(*                                                                         *)
(* Numbers.  The program computes in IEEE doubles through pandas/numpy.    *)
(* The model computes in exact rationals extended with NaN and +/-Inf      *)
(* (division by zero yields Inf or NaN, never an error, as numpy does).    *)
(* Square roots and exponential averages are rounded down to a fixed grid, *)
(* which stands for the rounding of doubles.  Prices and volumes are       *)
(* integers, so sums, means and ratios are exact in both.                  *)
(***************************************************************************)
EXTENDS Integers, Sequences, FiniteSets, TLC

(***************************************************************************)
(* Extended rationals                                                      *)
(***************************************************************************)
RECURSIVE GCD(_, _)
GCD(a, b) == IF b = 0 THEN a ELSE GCD(b, a % b)

Abs(x) == IF x < 0 THEN -x ELSE x

Sign(x) == IF x < 0 THEN -1 ELSE 1

NaN == [k |-> "nan", n |-> 0, d |-> 1]

Inf(s) == [k |-> "inf", n |-> s, d |-> 1]

\* n/d in lowest terms, d > 0
Frac(n, d) ==
    IF d = 1 THEN [k |-> "num", n |-> n, d |-> 1]
    ELSE LET g == GCD(Abs(n), Abs(d))
             s == Sign(d)
         IN  [k |-> "num", n |-> (s * n) \div g, d |-> (s * d) \div g]

Num(n) == [k |-> "num", n |-> n, d |-> 1]

IsNaN(x) == x.k = "nan"

IsNum(x) == x.k = "num"

FNeg(x) == IF x.k = "nan" THEN NaN ELSE [x EXCEPT !.n = -x.n]

FAdd(a, b) ==
    IF a.k = "nan" \/ b.k = "nan" THEN NaN
    ELSE IF a.k = "inf" /\ b.k = "inf" THEN (IF a.n = b.n THEN a ELSE NaN)
    ELSE IF a.k = "inf" THEN a
    ELSE IF b.k = "inf" THEN b
    ELSE IF a.d = b.d THEN Frac(a.n + b.n, a.d)
    ELSE LET g == GCD(a.d, b.d)
         IN  Frac(a.n * (b.d \div g) + b.n * (a.d \div g), a.d * (b.d \div g))

FSub(a, b) == FAdd(a, FNeg(b))

FMul(a, b) ==
    IF a.k = "nan" \/ b.k = "nan" THEN NaN
    ELSE IF a.k = "inf" \/ b.k = "inf"
         THEN (IF a.n = 0 \/ b.n = 0 THEN NaN ELSE Inf(Sign(a.n) * Sign(b.n)))
    ELSE Frac(a.n * b.n, a.d * b.d)

FDiv(a, b) ==
    IF a.k = "nan" \/ b.k = "nan" THEN NaN
    ELSE IF a.k = "inf" THEN (IF b.k = "inf" THEN NaN ELSE Inf(a.n * Sign(b.n)))
    ELSE IF b.k = "inf" THEN Num(0)
    ELSE IF b.n = 0 THEN (IF a.n = 0 THEN NaN ELSE Inf(Sign(a.n)))
    ELSE Frac(a.n * b.d, a.d * b.n)

\* a < b as IEEE compares: FALSE as soon as one side is NaN
FLt(a, b) ==
    IF a.k = "nan" \/ b.k = "nan" THEN FALSE
    ELSE IF a.k = "inf" THEN a.n < 0 /\ ~(b.k = "inf" /\ b.n < 0)
    ELSE IF b.k = "inf" THEN b.n > 0
    ELSE a.n * b.d < b.n * a.d

FGt(a, b) == FLt(b, a)

FLe(a, b) == ~IsNaN(a) /\ ~IsNaN(b) /\ ~FLt(b, a)

RECURSIVE ISqrtIn(_, _, _)
ISqrtIn(m, lo, hi) ==
    IF lo >= hi THEN lo
    ELSE LET mid == (lo + hi + 1) \div 2
         IN  IF mid * mid <= m THEN ISqrtIn(m, mid, hi) ELSE ISqrtIn(m, lo, mid - 1)

ISqrt(m) == ISqrtIn(m, 0, IF m < 46340 THEN m ELSE 46340)

\* grid of the rounded operations: 1/SqrtGrid for square roots, 1/EwmGrid for
\* exponential averages
SqrtGrid == 10 * 10

EwmGrid == 100 * 100

FSqrt(x) ==
    IF x.k = "nan" THEN NaN
    ELSE IF x.k = "inf" THEN (IF x.n > 0 THEN x ELSE NaN)
    ELSE IF x.n < 0 THEN NaN
    ELSE Frac(ISqrt((x.n * SqrtGrid * SqrtGrid) \div x.d), SqrtGrid)

\* x in units of 1/EwmGrid, rounded down
ToGrid(x) == IF EwmGrid % x.d = 0 THEN x.n * (EwmGrid \div x.d) ELSE (x.n * EwmGrid) \div x.d

(***************************************************************************)
(* pandas Series operations, on sequences of extended rationals            *)
(* (python index i is sequence index i + 1)                                *)
(***************************************************************************)
RECURSIVE SumRange(_, _, _)
SumRange(xs, lo, hi) == IF lo > hi THEN Num(0) ELSE FAdd(SumRange(xs, lo, hi - 1), xs[hi])

RECURSIVE SumSqRange(_, _, _)
SumSqRange(xs, lo, hi) ==
    IF lo > hi THEN Num(0) ELSE FAdd(SumSqRange(xs, lo, hi - 1), FMul(xs[hi], xs[hi]))

\* Series.diff()
diff(xs) == [i \in DOMAIN xs |-> IF i = 1 THEN NaN ELSE FSub(xs[i], xs[i - 1])]

\* Series.where(cond, 0) with cond = (series > 0): NaN fails the test and becomes 0
where_positive(xs) == [i \in DOMAIN xs |-> IF FGt(xs[i], Num(0)) THEN xs[i] ELSE Num(0)]

\* Series.where(cond, 0) with cond = (series < 0)
where_negative(xs) == [i \in DOMAIN xs |-> IF FLt(xs[i], Num(0)) THEN xs[i] ELSE Num(0)]

neg(xs) == [i \in DOMAIN xs |-> FNeg(xs[i])]

\* rolling mean with min_periods = 1: a partly filled window already yields a value
rolling_mean_partial(xs, w) ==
    [i \in DOMAIN xs |-> FDiv(SumRange(xs, IF i < w THEN 1 ELSE i - w + 1, i),
                              Num(IF i < w THEN i ELSE w))]

\* Series.rolling(window=w).mean(): min_periods defaults to w
rolling_mean(xs, w) ==
    [i \in DOMAIN xs |-> IF i < w THEN NaN ELSE FDiv(SumRange(xs, i - w + 1, i), Num(w))]

\* sample variance (ddof = 1) of xs[lo..hi]
Variance(xs, lo, hi) ==
    LET cnt == hi - lo + 1
        s   == SumRange(xs, lo, hi)
        sq  == SumSqRange(xs, lo, hi)
    IN  FDiv(FSub(sq, FDiv(FMul(s, s), Num(cnt))), Num(cnt - 1))

\* Series.rolling(window=w).std()
rolling_std(xs, w) ==
    [i \in DOMAIN xs |-> IF i < w THEN NaN ELSE FSqrt(Variance(xs, i - w + 1, i))]

RECURSIVE MaxRange(_, _, _)
MaxRange(xs, lo, hi) ==
    IF lo = hi THEN xs[lo]
    ELSE LET m == MaxRange(xs, lo, hi - 1)
         IN  IF IsNaN(m) \/ IsNaN(xs[hi]) THEN NaN ELSE IF FGt(xs[hi], m) THEN xs[hi] ELSE m

RECURSIVE MinRange(_, _, _)
MinRange(xs, lo, hi) ==
    IF lo = hi THEN xs[lo]
    ELSE LET m == MinRange(xs, lo, hi - 1)
         IN  IF IsNaN(m) \/ IsNaN(xs[hi]) THEN NaN ELSE IF FLt(xs[hi], m) THEN xs[hi] ELSE m

\* Series.rolling(window=w).max() / .min()
rolling_max(xs, w) == [i \in DOMAIN xs |-> IF i < w THEN NaN ELSE MaxRange(xs, i - w + 1, i)]

rolling_min(xs, w) == [i \in DOMAIN xs |-> IF i < w THEN NaN ELSE MinRange(xs, i - w + 1, i)]

\* Series.ewm(span=span, adjust=False).mean():
\*   y[0] = x[0];  y[i] = (1 - a) * y[i-1] + a * x[i],  a = 2 / (span + 1),
\* that is y[i] = ((span - 1) * y[i-1] + 2 * x[i]) / (span + 1), rounded to the grid
EwmStep(prev, cur, span) ==
    IF ~IsNum(prev) \/ ~IsNum(cur) THEN NaN
    ELSE Frac(((span - 1) * ToGrid(prev) + 2 * ToGrid(cur)) \div (span + 1), EwmGrid)

RECURSIVE ewm_from(_, _, _)
ewm_from(xs, span, acc) ==
    IF Len(acc) = Len(xs) THEN acc
    ELSE LET i == Len(acc) + 1
             y == IF i = 1 THEN xs[1] ELSE EwmStep(acc[i - 1], xs[i], span)
         IN  ewm_from(xs, span, Append(acc, y))

\* exponential average seeded from 0 instead of the first value
ewm_mean_zero_seed(xs, span) ==
    IF Len(xs) = 0 THEN <<>>
    ELSE ewm_from(xs, span, <<EwmStep(Num(0), xs[1], span)>>)

ewm_mean(xs, span) == ewm_from(xs, span, <<>>)

\* Series.pct_change(periods=p)
pct_change(xs, p) ==
    [i \in DOMAIN xs |-> IF i <= p THEN NaN ELSE FSub(FDiv(xs[i], xs[i - p]), Num(1))]

\* Series.mean(), Series.std(), Series.sum(), Series.tail(k)
mean(xs) == FDiv(SumRange(xs, 1, Len(xs)), Num(Len(xs)))

std(xs) == FSqrt(Variance(xs, 1, Len(xs)))

tail(xs, k) == IF Len(xs) <= k THEN xs ELSE SubSeq(xs, Len(xs) - k + 1, Len(xs))

sub(xs, ys) == [i \in DOMAIN xs |-> FSub(xs[i], ys[i])]

div(xs, ys) == [i \in DOMAIN xs |-> FDiv(xs[i], ys[i])]

(***************************************************************************)
(* DataFrames.  A frame is a function from column names to columns of one  *)
(* length; frames live in a heap and are passed by reference, as python    *)
(* objects are.  Reference None is 0; Unset marks a variable not yet       *)
(* assigned.                                                               *)
(***************************************************************************)
None == 0

Unset == -1

\* the dict-valued None (analyze_volume_patterns returns a dict or None)
NoResult == [none |-> TRUE]

NotCalled == [unset |-> TRUE]

Rows(df) == Len(df.Close)

\* DataFrame.empty
empty(df) == Rows(df) = 0

\* df[name] = col
SetCol(df, name, col) ==
    [c \in DOMAIN df \cup {name} |-> IF c = name THEN col ELSE df[c]]

\* smallest object id not in use
NewId(h) == CHOOSE i \in 1..(Cardinality(DOMAIN h) + 1) : i \notin DOMAIN h

(***************************************************************************)
(* src/utils/price_data.py                                                 *)
(***************************************************************************)
RSI_PERIODS == 14

MACD_FAST == 12

MACD_SLOW == 26

MACD_SIGNAL == 9

BB_WINDOW == 20

BB_WIDTH == 2

VOLUME_WINDOW == 20

MOMENTUM_PERIODS == 5

RANGE_WINDOW == 20

\* 100 - (100 / (1 + rs))
RsiOf(rs) == FSub(Num(100), FDiv(Num(100), FAdd(Num(1), rs)))

\* calculate_rsi with gain and loss exchanged in the ratio
calculate_rsi_swapped(data, periods) ==
    LET delta == diff(data.Close)
        gain  == rolling_mean(where_positive(delta), periods)
        loss  == rolling_mean(neg(where_negative(delta)), periods)
        rs    == div(loss, gain)
    IN  [i \in DOMAIN rs |-> RsiOf(rs[i])]

calculate_rsi(data, periods) ==
    LET delta == diff(data.Close)
        gain  == rolling_mean(where_positive(delta), periods)
        loss  == rolling_mean(neg(where_negative(delta)), periods)
        rs    == div(gain, loss)
    IN  [i \in DOMAIN rs |-> RsiOf(rs[i])]

calculate_macd(data) ==
    LET exp1   == ewm_mean(data.Close, MACD_FAST)
        exp2   == ewm_mean(data.Close, MACD_SLOW)
        macd   == sub(exp1, exp2)
        signal == ewm_mean(macd, MACD_SIGNAL)
    IN  [macd |-> macd, signal |-> signal]

\* calculate_bollinger_bands with the upper band's sign slipped
calculate_bollinger_bands_same_sign(data, window) ==
    LET ma  == rolling_mean(data.Close, window)
        sd  == rolling_std(data.Close, window)
    IN  [upper |-> [i \in DOMAIN ma |-> FSub(ma[i], FMul(sd[i], Num(BB_WIDTH)))],
         lower |-> [i \in DOMAIN ma |-> FSub(ma[i], FMul(sd[i], Num(BB_WIDTH)))]]

calculate_bollinger_bands(data, window) ==
    LET ma  == rolling_mean(data.Close, window)
        sd  == rolling_std(data.Close, window)
    IN  [upper |-> [i \in DOMAIN ma |-> FAdd(ma[i], FMul(sd[i], Num(BB_WIDTH)))],
         lower |-> [i \in DOMAIN ma |-> FSub(ma[i], FMul(sd[i], Num(BB_WIDTH)))]]

IndicatorColumns ==
    {"RSI", "MACD", "Signal", "BB_Upper", "BB_Lower", "Volume_MA", "Volume_Ratio",
     "Price_Momentum", "20_day_high", "20_day_low"}

\* the column assignments of calculate_technical_indicators, lines 32-63, on frame df;
\* each right-hand side reads the base columns, but for Volume_Ratio, which reads
\* the Volume_MA assigned on the line before it
AssignIndicators(df) ==
    LET rsi       == calculate_rsi(df, RSI_PERIODS)
        m         == calculate_macd(df)
        b         == calculate_bollinger_bands(df, BB_WINDOW)
        volume_ma == rolling_mean(df.Volume, VOLUME_WINDOW)
    IN  [c \in DOMAIN df \cup IndicatorColumns |->
            CASE c = "RSI"            -> rsi
              [] c = "MACD"           -> m.macd
              [] c = "Signal"         -> m.signal
              [] c = "BB_Upper"       -> b.upper
              [] c = "BB_Lower"       -> b.lower
              [] c = "Volume_MA"      -> volume_ma
              [] c = "Volume_Ratio"   -> div(df.Volume, volume_ma)
              [] c = "Price_Momentum" -> pct_change(df.Close, MOMENTUM_PERIODS)
              [] c = "20_day_high"    -> rolling_max(df.High, RANGE_WINDOW)
              [] c = "20_day_low"     -> rolling_min(df.Low, RANGE_WINDOW)
              [] OTHER                -> df[c]]

\* calculate_technical_indicators(df): writes the columns into the object it is
\* given and returns that same object
calculate_technical_indicators(h, ref) ==
    IF ref = None \/ empty(h[ref]) THEN [heap |-> h, ret |-> None]
    ELSE [heap |-> [h EXCEPT ![ref] = AssignIndicators(h[ref])], ret |-> ref]

(***************************************************************************)
(* src/price_data.py                                                       *)
(***************************************************************************)
ROOT_RSI_PERIODS == 14

ROOT_BB_WINDOW == 20

root_calculate_rsi(data, periods) ==
    LET delta == diff(data.Close)
        gain  == rolling_mean(where_positive(delta), periods)
        loss  == rolling_mean(neg(where_negative(delta)), periods)
        rs    == div(gain, loss)
    IN  [i \in DOMAIN rs |-> FSub(Num(100), FDiv(Num(100), FAdd(Num(1), rs[i])))]

\* root_calculate_macd with the two averages exchanged
root_calculate_macd_swapped(data) ==
    LET exp1   == ewm_mean(data.Close, 12)
        exp2   == ewm_mean(data.Close, 26)
        macd   == sub(exp2, exp1)
        signal == ewm_mean(macd, 9)
    IN  [macd |-> macd, signal |-> signal]

root_calculate_macd(data) ==
    LET exp1   == ewm_mean(data.Close, 12)
        exp2   == ewm_mean(data.Close, 26)
        macd   == sub(exp1, exp2)
        signal == ewm_mean(macd, 9)
    IN  [macd |-> macd, signal |-> signal]

root_calculate_bollinger_bands(data, window) ==
    LET ma  == rolling_mean(data.Close, window)
        sd  == rolling_std(data.Close, window)
    IN  [upper |-> [i \in DOMAIN ma |-> FAdd(ma[i], FMul(sd[i], Num(2)))],
         lower |-> [i \in DOMAIN ma |-> FSub(ma[i], FMul(sd[i], Num(2)))]]

\* the column assignments of lines 52-65, on the copy
RootAssignIndicators(df) ==
    LET rsi       == root_calculate_rsi(df, ROOT_RSI_PERIODS)
        m         == root_calculate_macd(df)
        b         == root_calculate_bollinger_bands(df, ROOT_BB_WINDOW)
        volume_ma == rolling_mean(df.Volume, 20)
    IN  [c \in DOMAIN df \cup IndicatorColumns |->
            CASE c = "RSI"            -> rsi
              [] c = "MACD"           -> m.macd
              [] c = "Signal"         -> m.signal
              [] c = "BB_Upper"       -> b.upper
              [] c = "BB_Lower"       -> b.lower
              [] c = "Volume_MA"      -> volume_ma
              [] c = "Volume_Ratio"   -> div(df.Volume, volume_ma)
              [] c = "Price_Momentum" -> pct_change(df.Close, 5)
              [] c = "20_day_high"    -> rolling_max(df.High, 20)
              [] c = "20_day_low"     -> rolling_min(df.Low, 20)
              [] OTHER                -> df[c]]

\* calculate_technical_indicators(df) of src/price_data.py: df = df.copy() first,
\* so the columns go to a new object
root_calculate_technical_indicators(h, ref) ==
    IF ref = None \/ empty(h[ref]) THEN [heap |-> h, ret |-> None]
    ELSE LET copy == NewId(h)
         IN  [heap |-> [i \in DOMAIN h \cup {copy} |->
                            IF i = copy THEN RootAssignIndicators(h[ref]) ELSE h[i]],
              ret |-> copy]

(***************************************************************************)
(* src/utils/volume_analysis.py                                            *)
(***************************************************************************)
TAIL_ROWS == 5

SPIKE_WIDTH == 2

RECURSIVE SumWhere(_, _, _)
\* df[keep]['Volume'].sum(): the sum of xs over the indices up to i whose flag holds
SumWhere(xs, keep, i) ==
    IF i = 0 THEN Num(0)
    ELSE IF keep[i] THEN FAdd(SumWhere(xs, keep, i - 1), xs[i])
    ELSE SumWhere(xs, keep, i - 1)

mul(xs, ys) == [i \in DOMAIN xs |-> FMul(xs[i], ys[i])]

\* Series.corr (Pearson): covariance over the product of the standard deviations
corr(xs, ys) ==
    LET cnt == Len(xs)
        cov == FDiv(FSub(SumRange(mul(xs, ys), 1, cnt),
                         FDiv(FMul(SumRange(xs, 1, cnt), SumRange(ys, 1, cnt)), Num(cnt))),
                    Num(cnt - 1))
    IN  FDiv(cov, FMul(std(xs), std(ys)))

\* recent volume as the tail's sum over a fixed count of 5
recent_volume_fixed_count(df) ==
    FDiv(SumRange(tail(df.Volume, TAIL_ROWS), 1, Len(tail(df.Volume, TAIL_ROWS))),
         Num(TAIL_ROWS))

\* line 12: df['Volume'].tail(5).mean()
recent_volume(df) == mean(tail(df.Volume, TAIL_ROWS))

\* up volume that also counts the sessions closing where they opened
up_volume_inclusive(df) ==
    SumWhere(df.Volume, [i \in DOMAIN df.Volume |-> ~FLt(df.Price_Change[i], Num(0))], Rows(df))

\* line 29: df[df['Price_Change'] > 0]['Volume'].sum()
up_volume(df) ==
    SumWhere(df.Volume, [i \in DOMAIN df.Volume |-> FGt(df.Price_Change[i], Num(0))], Rows(df))

\* line 30: df[df['Price_Change'] < 0]['Volume'].sum()
down_volume(df) ==
    SumWhere(df.Volume, [i \in DOMAIN df.Volume |-> FLt(df.Price_Change[i], Num(0))], Rows(df))

\* line 19: len(df[df['Volume'] > volume_mean + 2 * volume_std])
volume_spikes(df) ==
    LET limit == FAdd(mean(df.Volume), FMul(Num(SPIKE_WIDTH), std(df.Volume)))
    IN  Cardinality({i \in DOMAIN df.Volume : FGt(df.Volume[i], limit)})

\* analyze_volume_patterns(df): returns the analysis dict, and leaves the column
\* Price_Change in the object it was given (line 28)
analyze_volume_patterns(h, ref) ==
    IF ref = None \/ empty(h[ref]) THEN [heap |-> h, ret |-> NoResult]
    ELSE LET df  == h[ref]
             df2 == SetCol(df, "Price_Change", sub(df.Close, df.Open))
         IN  [heap |-> [h EXCEPT ![ref] = df2],
              ret  |-> [volume_trend |-> FDiv(recent_volume(df), mean(df.Volume)),
                        volume_spikes |-> volume_spikes(df),
                        price_volume_correlation |-> corr(df.Close, df.Volume),
                        volume_consistency |-> FDiv(std(df.Volume), mean(df.Volume)),
                        buying_pressure |->
                            FDiv(up_volume(df2), FAdd(up_volume(df2), down_volume(df2)))]]

(***************************************************************************)
(* src/market_analysis.py                                                  *)
(***************************************************************************)
\* the weights dict, lines 37-42
weights == [sentiment |-> Frac(3, 10), technical |-> Frac(3, 10),
            volume |-> Frac(2, 10), correlation |-> Frac(2, 10)]

\* a dict is a function from its keys; {} is the function with no key
EmptyDict == [key \in {} |-> NaN]

\* correlation_score with the low-beta test made inclusive
correlation_score_inclusive(correlation_data) ==
    IF DOMAIN correlation_data # {} /\ "beta" \in DOMAIN correlation_data
    THEN IF FLe(correlation_data["beta"], Frac(8, 10)) THEN FAdd(Frac(5, 10), Frac(2, 10))
         ELSE IF FGt(correlation_data["beta"], Frac(12, 10))
              THEN FSub(Frac(5, 10), Frac(2, 10))
         ELSE Frac(5, 10)
    ELSE Frac(5, 10)

\* correlation_score after lines 44-50
correlation_score(correlation_data) ==
    IF DOMAIN correlation_data # {} /\ "beta" \in DOMAIN correlation_data
    THEN IF FLt(correlation_data["beta"], Frac(8, 10)) THEN FAdd(Frac(5, 10), Frac(2, 10))
         ELSE IF FGt(correlation_data["beta"], Frac(12, 10))
              THEN FSub(Frac(5, 10), Frac(2, 10))
         ELSE Frac(5, 10)
    ELSE Frac(5, 10)

calculate_market_score(sentiment_score, technical_score, volume_score, correlation_data) ==
    FAdd(FAdd(FAdd(FMul(sentiment_score, weights.sentiment),
                   FMul(technical_score, weights.technical)),
              FMul(volume_score, weights.volume)),
         FMul(correlation_score(correlation_data), weights.correlation))

(***************************************************************************)
(* The market-data provider: what ticker.history may answer.  A series is  *)
(* built from a shape for each column; rows are trading sessions, prices   *)
(* positive and volumes non-negative integers.                             *)
(***************************************************************************)
MaxLen == 21

BasePrice == 30

Min(a, b) == IF a < b THEN a ELSE b

Max(a, b) == IF a > b THEN a ELSE b

\* Close moves by s1 per session up to session p and by s2 after it
CloseAt(shape, i) ==
    BasePrice + shape.s1 * Min(i - 1, shape.p) + shape.s2 * Max(0, i - 1 - shape.p)

CloseShapes == [s1 : {-1, 0, 1}, s2 : {-1, 0, 1}, p : {3, 16}]

\* Open relative to Close: all sessions flat, all up, all down, or a mix
OpenAt(shape, close, i) ==
    CASE shape = "flat"  -> close
      [] shape = "up"    -> close - 1
      [] shape = "down"  -> close + 1
      [] shape = "mixed" -> close + ((i % 3) - 1)

OpenShapes == {"flat", "up", "down", "mixed"}

\* Volume: no trading at all, the same volume every session, a cycle, one spike
VolumeAt(shape, i) ==
    CASE shape = "zero"  -> 0
      [] shape = "const" -> 3
      [] shape = "cycle" -> 1 + (i % 3)
      [] shape = "spike" -> IF i = 2 THEN 9 ELSE 2

VolumeShapes == {"zero", "const", "cycle", "spike"}

History(len, cs, os, vs) ==
    [Open   |-> [i \in 1..len |-> Num(OpenAt(os, CloseAt(cs, i), i))],
     High   |-> [i \in 1..len |-> Num(Max(OpenAt(os, CloseAt(cs, i), i), CloseAt(cs, i)) + 1)],
     Low    |-> [i \in 1..len |-> Num(Min(OpenAt(os, CloseAt(cs, i), i), CloseAt(cs, i)) - 1)],
     Close  |-> [i \in 1..len |-> Num(CloseAt(cs, i))],
     Volume |-> [i \in 1..len |-> Num(VolumeAt(vs, i))]]

\* what the provider is asked to answer with: every trading profile at every
\* length, and every close shape at the lengths where a window fills
ProviderCases ==
    [len : 0..MaxLen, cs : {[s1 |-> 1, s2 |-> -1, p |-> 3]}, os : OpenShapes, vs : VolumeShapes]
    \cup
    [len : {RSI_PERIODS, BB_WINDOW, MaxLen}, cs : CloseShapes, os : {"mixed"}, vs : {"cycle"}]

\* fetch_price_data(symbol, period): the provider's answer, or None when it raises
fetch_price_data(h, answer) ==
    IF answer = NoResult THEN [heap |-> h, ret |-> None]
    ELSE LET id == NewId(h)
         IN  [heap |-> [i \in DOMAIN h \cup {id} |-> IF i = id THEN answer ELSE h[i]],
              ret |-> id]

(***************************************************************************)
(* State                                                                   *)
(***************************************************************************)
VARIABLES
    heap,                  \* the DataFrame objects alive, by object id
    price_data,            \* reference returned by fetch_price_data
    fetched,               \* the series as the provider answered it (history)
    technical_indicators,  \* reference returned by calculate_technical_indicators
    root_indicators,       \* reference returned by the variant of src/price_data.py
    volume_analysis,       \* dict returned by analyze_volume_patterns
    score_args,            \* arguments of calculate_market_score
    market_score,          \* its result
    pc,                    \* position of main
    sentiment_df,          \* main: rows of the sentiment summary
    todo,                  \* main: symbols the fetch loop has yet to visit
    price_data_dict,       \* main: symbol -> reference
    technical_indicators_dict,
    volume_analysis_dict,
    market_correlations,   \* main: result of analyze_market_correlations
    rows_left,             \* main: rows the display loop has yet to visit
    shown,                 \* main: what the display loop has rendered
    exception              \* main: the exception that ended it, if any

libvars == <<heap, price_data, fetched, technical_indicators, root_indicators, volume_analysis>>

scorevars == <<score_args, market_score>>

mainvars == <<pc, sentiment_df, todo, price_data_dict, technical_indicators_dict,
              volume_analysis_dict, market_correlations, rows_left, shown,
              exception>>

vars == <<libvars, scorevars, mainvars>>

EmptyHeap == [i \in {} |-> NoResult]

LibIdle ==
    /\ heap = EmptyHeap
    /\ price_data = Unset
    /\ fetched = NotCalled
    /\ technical_indicators = Unset
    /\ root_indicators = Unset
    /\ volume_analysis = NotCalled

ScoreIdle ==
    /\ score_args = NotCalled
    /\ market_score = NotCalled

MainIdle ==
    /\ pc = "idle"
    /\ sentiment_df = <<>>
    /\ todo = <<>>
    /\ price_data_dict = EmptyDict
    /\ technical_indicators_dict = EmptyDict
    /\ volume_analysis_dict = EmptyDict
    /\ market_correlations = NotCalled
    /\ rows_left = <<>>
    /\ shown = <<>>
    /\ exception = ""

(***************************************************************************)
(* The library under any sequence of calls on one fetched series           *)
(***************************************************************************)
Init == LibIdle /\ ScoreIdle /\ MainIdle

\* price_data = fetch_price_data(symbol, period)
FetchPriceData ==
    /\ price_data = Unset
    /\ \/ \E c \in ProviderCases :
              LET answer == History(c.len, c.cs, c.os, c.vs)
                  r      == fetch_price_data(heap, answer)
              IN  /\ heap' = r.heap
                  /\ price_data' = r.ret
                  /\ fetched' = answer
       \/ LET r == fetch_price_data(heap, NoResult)
          IN  /\ heap' = r.heap
              /\ price_data' = r.ret
              /\ fetched' = NoResult
    /\ UNCHANGED <<technical_indicators, root_indicators, volume_analysis>>
    /\ UNCHANGED <<scorevars, mainvars>>

\* technical_indicators = calculate_technical_indicators(price_data), as app.py
\* imports it from utils.price_data
CalculateTechnicalIndicators ==
    /\ price_data # Unset
    /\ LET r == calculate_technical_indicators(heap, price_data)
       IN  /\ heap' = r.heap
           /\ technical_indicators' = r.ret
    /\ UNCHANGED <<price_data, fetched, root_indicators, volume_analysis>>
    /\ UNCHANGED <<scorevars, mainvars>>

\* the objects still referenced once root_indicators is reassigned
Reachable(h) == [i \in DOMAIN h \cap {price_data, technical_indicators} |-> h[i]]

\* root_indicators = calculate_technical_indicators(price_data) of src/price_data.py
RootCalculateTechnicalIndicators ==
    /\ price_data # Unset
    /\ LET r == root_calculate_technical_indicators(Reachable(heap), price_data)
       IN  /\ heap' = r.heap
           /\ root_indicators' = r.ret
    /\ UNCHANGED <<price_data, fetched, technical_indicators, volume_analysis>>
    /\ UNCHANGED <<scorevars, mainvars>>

\* volume_analysis = analyze_volume_patterns(price_data)
AnalyzeVolumePatterns ==
    /\ price_data # Unset
    /\ LET r == analyze_volume_patterns(heap, price_data)
       IN  /\ heap' = r.heap
           /\ volume_analysis' = r.ret
    /\ UNCHANGED <<price_data, fetched, technical_indicators, root_indicators>>
    /\ UNCHANGED <<scorevars, mainvars>>

Next ==
    \/ FetchPriceData
    \/ CalculateTechnicalIndicators
    \/ RootCalculateTechnicalIndicators
    \/ AnalyzeVolumePatterns

Spec == Init /\ [][Next]_vars

(***************************************************************************)
(* calculate_market_score on drawn arguments                               *)
(***************************************************************************)
BetaValues == {Frac(1, 2), Frac(8, 10), Num(1), Frac(12, 10), Frac(3, 2), NaN}

\* {}, a record without beta, and a record with each beta
CorrelationRecords ==
    {EmptyDict, [r_squared |-> Frac(1, 2)]}
    \cup {[beta |-> b, r_squared |-> Frac(1, 2)] : b \in BetaValues}

ScoreInputs ==
    [sentiment_score : {Num(-1), Num(0), Frac(1, 2), Num(1)},
     technical_score : {Num(0), Frac(3, 10), Num(1), NaN},
     volume_score : {Num(0), Frac(1, 4), Num(1), NaN},
     correlation_data : CorrelationRecords]

InitScore ==
    /\ LibIdle /\ MainIdle
    /\ score_args \in ScoreInputs
    /\ market_score = NotCalled

CalculateMarketScore ==
    /\ market_score = NotCalled
    /\ market_score' = calculate_market_score(score_args.sentiment_score,
                            score_args.technical_score, score_args.volume_score,
                            score_args.correlation_data)
    /\ UNCHANGED <<score_args, libvars, mainvars>>

NextScore == CalculateMarketScore

SpecScore == InitScore /\ [][NextScore]_vars

(***************************************************************************)
(* src/app.py: main, from the press of "Analyze Market" (line 59) on       *)
(***************************************************************************)
Symbols == <<"1120", "2222">>

\* the sentiment summary (create_sentiment_summary is not part of the listing): one
\* row per symbol
SentimentTables ==
    {<<[symbol |-> Symbols[1], avg_sentiment |-> a], [symbol |-> Symbols[2], avg_sentiment |-> b]>> :
        a \in {Num(0), Frac(1, 2)}, b \in {Frac(1, 2)}}

\* what the provider answers main with: no rows, one row, a full history
MainCases ==
    [len : {0, 1, MaxLen}, cs : {[s1 |-> 1, s2 |-> -1, p |-> 3]}, os : {"mixed", "flat"},
     vs : {"cycle"}]

InitMain ==
    /\ LibIdle /\ ScoreIdle
    /\ sentiment_df \in SentimentTables
    /\ pc = "fetch"
    /\ todo = Symbols
    /\ price_data_dict = EmptyDict
    /\ technical_indicators_dict = EmptyDict
    /\ volume_analysis_dict = EmptyDict
    /\ market_correlations = NotCalled
    /\ rows_left = <<>>
    /\ shown = <<>>
    /\ exception = ""

\* dict[key] = value
Put(dict, key, value) ==
    [x \in DOMAIN dict \cup {key} |-> IF x = key THEN value ELSE dict[x]]

\* dict.get(key, {})
Get(dict, key) == IF key \in DOMAIN dict THEN dict[key] ELSE EmptyDict

\* lines 73-81, one turn of the loop for the symbol at the head of todo
FetchLoopBody(answer) ==
    LET symbol == Head(todo)
        f      == fetch_price_data(heap, answer)
        t      == calculate_technical_indicators(f.heap, f.ret)
        v      == analyze_volume_patterns(t.heap, f.ret)
    IN  /\ todo' = Tail(todo)
        /\ IF f.ret # None
           THEN /\ heap' = v.heap
                /\ price_data_dict' = Put(price_data_dict, symbol, f.ret)
                /\ technical_indicators_dict' = Put(technical_indicators_dict, symbol, t.ret)
                /\ volume_analysis_dict' = Put(volume_analysis_dict, symbol, v.ret)
           ELSE /\ heap' = f.heap
                /\ UNCHANGED <<price_data_dict, technical_indicators_dict,
                               volume_analysis_dict>>

MainFetchSymbol ==
    /\ pc = "fetch"
    /\ todo # <<>>
    /\ \/ \E c \in MainCases : FetchLoopBody(History(c.len, c.cs, c.os, c.vs))
       \/ FetchLoopBody(NoResult)
    /\ UNCHANGED <<pc, sentiment_df, market_correlations, rows_left, shown, exception>>
    /\ UNCHANGED <<price_data, fetched, technical_indicators, root_indicators,
                   volume_analysis, scorevars>>

\* analyze_market_correlations(price_data_dict): a beta for every symbol whose
\* series is not empty; the slope is what the regression of scipy returns, drawn
analyze_market_correlations(h, dict, slope) ==
    [betas |-> [symbol \in {x \in DOMAIN dict : dict[x] # None /\ ~empty(h[dict[x]])} |->
                   [beta |-> slope[symbol], r_squared |-> Frac(1, 2)]]]

\* line 84, once the fetch loop has visited every symbol
MainCorrelations ==
    /\ pc = "fetch"
    /\ todo = <<>>
    /\ \E slope \in [DOMAIN price_data_dict -> {Frac(1, 2), Frac(3, 2)}] :
          market_correlations' = analyze_market_correlations(heap, price_data_dict, slope)
    /\ rows_left' = sentiment_df
    /\ pc' = "display"
    /\ UNCHANGED <<sentiment_df, todo, price_data_dict, technical_indicators_dict,
                   volume_analysis_dict, shown, exception>>
    /\ UNCHANGED <<libvars, scorevars>>

\* lines 134-137
recommendation(score) ==
    IF FGt(score, Frac(7, 10)) THEN "Strong Buy"
    ELSE IF FGt(score, Frac(5, 10)) THEN "Buy"
    ELSE IF FGt(score, Frac(3, 10)) THEN "Hold"
    ELSE IF FGt(score, Frac(2, 10)) THEN "Sell"
    ELSE "Strong Sell"

\* lines 101-139 for one row whose symbol has an entry in price_data_dict
Render(row) ==
    LET technical_data == technical_indicators_dict[row.symbol]
        volume_data    == volume_analysis_dict[row.symbol]
        last           == Rows(heap[technical_data])
        rsi            == heap[technical_data].RSI[last]
        score          == calculate_market_score(row.avg_sentiment, FDiv(rsi, Num(100)),
                              volume_data.buying_pressure,
                              Get(market_correlations.betas, row.symbol))
    IN  [symbol |-> row.symbol, RSI |-> rsi, MACD |-> heap[technical_data].MACD[last],
         volume_trend |-> volume_data.volume_trend,
         buying_pressure |-> volume_data.buying_pressure,
         market_score |-> score, recommendation |-> recommendation(score)]

\* lines 89-152, one turn of the display loop: technical_data.iloc[-1] (line 102)
\* raises AttributeError when the entry of technical_indicators_dict is None, and
\* nothing in main catches it
MainDisplayRow ==
    /\ pc = "display"
    /\ rows_left # <<>>
    /\ LET row == Head(rows_left)
       IN  IF row.symbol \notin DOMAIN price_data_dict
           THEN /\ rows_left' = Tail(rows_left)
                /\ UNCHANGED <<pc, shown, exception>>
           ELSE IF technical_indicators_dict[row.symbol] = None
           THEN /\ pc' = "raised"
                /\ exception' = "AttributeError: 'NoneType' object has no attribute 'iloc'"
                /\ UNCHANGED <<rows_left, shown>>
           ELSE /\ rows_left' = Tail(rows_left)
                /\ shown' = Append(shown, Render(row))
                /\ UNCHANGED <<pc, exception>>
    /\ UNCHANGED <<sentiment_df, todo, price_data_dict, technical_indicators_dict,
                   volume_analysis_dict, market_correlations>>
    /\ UNCHANGED <<libvars, scorevars>>

\* lines 154-166, after the last row
MainOverview ==
    /\ pc = "display"
    /\ rows_left = <<>>
    /\ pc' = "done"
    /\ UNCHANGED <<sentiment_df, todo, price_data_dict, technical_indicators_dict,
                   volume_analysis_dict, market_correlations, rows_left, shown, exception>>
    /\ UNCHANGED <<libvars, scorevars>>

NextMain ==
    \/ MainFetchSymbol
    \/ MainCorrelations
    \/ MainDisplayRow
    \/ MainOverview

SpecMain == InitMain /\ [][NextMain]_vars

(***************************************************************************)
(* Properties                                                              *)
(***************************************************************************)
\* the frames that carry indicator columns: the results of the two variants
IndicatorRefs == {technical_indicators, root_indicators} \cap DOMAIN heap

HasSeries == price_data \in DOMAIN heap

\* the integer value of Close at row i (closes are integers)
CloseInt(T, i) == T.Close[i].n

RECURSIVE GainSum(_, _, _)
\* sum of the rises of Close over rows lo..hi (row 1 has no predecessor: it counts 0)
GainSum(T, lo, hi) ==
    IF lo > hi THEN 0
    ELSE GainSum(T, lo, hi - 1)
         + (IF hi > 1 /\ CloseInt(T, hi) > CloseInt(T, hi - 1)
            THEN CloseInt(T, hi) - CloseInt(T, hi - 1) ELSE 0)

RECURSIVE LossSum(_, _, _)
\* sum of the falls of Close over rows lo..hi
LossSum(T, lo, hi) ==
    IF lo > hi THEN 0
    ELSE LossSum(T, lo, hi - 1)
         + (IF hi > 1 /\ CloseInt(T, hi) < CloseInt(T, hi - 1)
            THEN CloseInt(T, hi - 1) - CloseInt(T, hi) ELSE 0)

InRange(x, lo, hi) == IsNum(x) /\ lo * x.d <= x.n /\ x.n <= hi * x.d

\* C4 as stated: wherever the 14-period window is filled, RSI is a number in
\* [0, 100] if the average loss is positive, and undefined if the average loss is 0
\* (whatever the average gain)
C4_RsiUndefinedAtZeroLoss ==
    \A r \in IndicatorRefs : \A i \in 1..Rows(heap[r]) :
        i >= RSI_PERIODS =>
            IF LossSum(heap[r], i - RSI_PERIODS + 1, i) > 0
            THEN InRange(heap[r].RSI[i], 0, 100)
            ELSE IsNaN(heap[r].RSI[i])

\* C4 amended: wherever the 14-period window is filled, RSI is a number in [0, 100]
\* if the average loss is positive, exactly 100 if the average loss is 0 and the
\* average gain positive, and undefined only if both are 0
C4_RsiAtZeroLoss ==
    \A r \in IndicatorRefs : \A i \in 1..Rows(heap[r]) :
        i >= RSI_PERIODS =>
            LET loss == LossSum(heap[r], i - RSI_PERIODS + 1, i)
                gain == GainSum(heap[r], i - RSI_PERIODS + 1, i)
            IN  /\ loss > 0 => InRange(heap[r].RSI[i], 0, 100)
                /\ loss = 0 /\ gain > 0 => heap[r].RSI[i] = Num(100)
                /\ loss = 0 /\ gain = 0 => IsNaN(heap[r].RSI[i])

\* a series flat for 16 sessions and rising after: RSI undefined while the window
\* is flat, 100 once it holds a rise and no fall
C4_Witness ==
    \E r \in IndicatorRefs : \E i, j \in RSI_PERIODS..Rows(heap[r]) :
        /\ LossSum(heap[r], i - RSI_PERIODS + 1, i) = 0
        /\ GainSum(heap[r], i - RSI_PERIODS + 1, i) > 0
        /\ heap[r].RSI[i] = Num(100)
        /\ GainSum(heap[r], j - RSI_PERIODS + 1, j) = 0
        /\ LossSum(heap[r], j - RSI_PERIODS + 1, j) = 0
        /\ IsNaN(heap[r].RSI[j])

\* C5: on a series of at least one row the indicators are computed (the result is
\* a frame with every indicator column, one value per row), and each is undefined
\* before its window fills: RSI on the first 13 rows, the 20-session columns on the
\* first 19, Price_Momentum on the first 5
C5_UndefinedBeforeWindow ==
    /\ HasSeries /\ ~empty(heap[price_data]) =>
          /\ technical_indicators # Unset => technical_indicators \in DOMAIN heap
          /\ root_indicators # Unset => root_indicators \in DOMAIN heap
    /\ \A r \in IndicatorRefs :
          /\ IndicatorColumns \subseteq DOMAIN heap[r]
          /\ \A c \in IndicatorColumns : Len(heap[r][c]) = Rows(heap[r])
          /\ \A i \in 1..Rows(heap[r]) :
                /\ i < RSI_PERIODS => IsNaN(heap[r].RSI[i])
                /\ i < BB_WINDOW => IsNaN(heap[r].BB_Upper[i]) /\ IsNaN(heap[r].BB_Lower[i])
                /\ i < VOLUME_WINDOW =>
                      IsNaN(heap[r].Volume_MA[i]) /\ IsNaN(heap[r].Volume_Ratio[i])
                /\ i < RANGE_WINDOW =>
                      IsNaN(heap[r]["20_day_high"][i]) /\ IsNaN(heap[r]["20_day_low"][i])
                /\ i <= MOMENTUM_PERIODS => IsNaN(heap[r].Price_Momentum[i])

\* a series long enough for the 20-session window: undefined on row 19, a number on
\* row 20
C5_Witness ==
    \E r \in IndicatorRefs :
        /\ Rows(heap[r]) >= BB_WINDOW
        /\ IsNaN(heap[r].Volume_MA[BB_WINDOW - 1])
        /\ IsNum(heap[r].Volume_MA[BB_WINDOW])
        /\ IsNaN(heap[r].RSI[RSI_PERIODS - 1])

RECURSIVE CloseSum(_, _, _)
CloseSum(T, lo, hi) == IF lo > hi THEN 0 ELSE CloseSum(T, lo, hi - 1) + CloseInt(T, hi)

WindowFlat(T, lo, hi) == \A j \in lo..hi : CloseInt(T, j) = CloseInt(T, lo)

\* C6: wherever the 20-session window is filled the rolling mean of Close lies
\* between the bands and is their midpoint, and the bands coincide exactly when the
\* 20 closes of the window are equal
C6_BandsBracketMean ==
    \A r \in IndicatorRefs : \A i \in 1..Rows(heap[r]) :
        i >= BB_WINDOW =>
            LET upper == heap[r].BB_Upper[i]
                lower == heap[r].BB_Lower[i]
                total == CloseSum(heap[r], i - BB_WINDOW + 1, i)
            IN  /\ IsNum(upper) /\ IsNum(lower)
                /\ upper.n * BB_WINDOW >= total * upper.d
                /\ lower.n * BB_WINDOW <= total * lower.d
                /\ FAdd(upper, lower) = Frac(2 * total, BB_WINDOW)
                /\ (upper = lower) <=> WindowFlat(heap[r], i - BB_WINDOW + 1, i)

\* a filled window with unequal closes and the bands strictly apart
C6_Witness ==
    \E r \in IndicatorRefs : \E i \in BB_WINDOW..Rows(heap[r]) :
        /\ ~WindowFlat(heap[r], i - BB_WINDOW + 1, i)
        /\ FLt(heap[r].BB_Lower[i], heap[r].BB_Upper[i])

Analysed == volume_analysis \notin {NotCalled, NoResult}

VolumeInt(T, i) == T.Volume[i].n

ConstantVolume(T) == \A i \in 1..Rows(T) : VolumeInt(T, i) = VolumeInt(T, 1)

\* C7 as stated: on a series of at least one row whose Volume is the same in every
\* row, volume_trend is 1.0, for every constant value
C7_ConstantVolumeTrendOne ==
    Analysed /\ ConstantVolume(heap[price_data]) => volume_analysis.volume_trend = Num(1)

\* C7 amended: on a series of at least one row whose Volume is the same positive
\* value in every row, volume_trend is 1.0, at every length
C7_PositiveConstantVolumeTrendOne ==
    Analysed /\ ConstantVolume(heap[price_data]) /\ VolumeInt(heap[price_data], 1) > 0
        => volume_analysis.volume_trend = Num(1)

\* a series shorter than 5 rows with a constant positive volume, analysed
C7_Witness ==
    /\ Analysed
    /\ Rows(heap[price_data]) \in 1..(TAIL_ROWS - 1)
    /\ ConstantVolume(heap[price_data])
    /\ VolumeInt(heap[price_data], 1) > 0
    /\ volume_analysis.volume_trend = Num(1)

RECURSIVE UpSum(_, _)
\* Volume summed over the rows up to i that close above their open
UpSum(T, i) ==
    IF i = 0 THEN 0
    ELSE UpSum(T, i - 1) + (IF T.Close[i].n > T.Open[i].n THEN VolumeInt(T, i) ELSE 0)

RECURSIVE DownSum(_, _)
\* Volume summed over the rows up to i that close below their open
DownSum(T, i) ==
    IF i = 0 THEN 0
    ELSE DownSum(T, i - 1) + (IF T.Close[i].n < T.Open[i].n THEN VolumeInt(T, i) ELSE 0)

\* C8: buying_pressure is up-volume over up-volume plus down-volume, sessions that
\* close where they opened counting in neither; it lies in [0, 1] when that
\* denominator is positive and is undefined when it is 0
C8_BuyingPressure ==
    Analysed =>
        LET up   == UpSum(heap[price_data], Rows(heap[price_data]))
            down == DownSum(heap[price_data], Rows(heap[price_data]))
            bp   == volume_analysis.buying_pressure
        IN  IF up + down > 0
            THEN /\ InRange(bp, 0, 1)
                 /\ bp.n * (up + down) = bp.d * up
            ELSE IsNaN(bp)

\* a series with volume traded on flat sessions only: the denominator is 0 and the
\* result undefined
C8_Witness ==
    /\ Analysed
    /\ VolumeInt(heap[price_data], 1) > 0
    /\ UpSum(heap[price_data], Rows(heap[price_data])) = 0
    /\ DownSum(heap[price_data], Rows(heap[price_data])) = 0
    /\ IsNaN(volume_analysis.buying_pressure)

\* x in units of 1/EwmGrid, for x on the grid
GridUnits(x) == x.n * (EwmGrid \div x.d)

\* C9: MACD and Signal are defined on every row and are 0 on the first; Signal
\* follows y[i] = a * MACD[i] + (1 - a) * y[i-1] with a = 2/10 and MACD on the second
\* row is (2/13 - 2/27) * (Close[1] - Close[0]), both to the rounding of one grid step
\* per average; on a constant Close both are 0 on every row
C9_MacdSeededFromFirst ==
    \A r \in IndicatorRefs :
        LET T == heap[r]
        IN  /\ T.MACD[1] = Num(0) /\ T.Signal[1] = Num(0)
            /\ \A i \in 1..Rows(T) : IsNum(T.MACD[i]) /\ IsNum(T.Signal[i])
            /\ \A i \in 2..Rows(T) :
                  LET exact == (MACD_SIGNAL - 1) * GridUnits(T.Signal[i - 1])
                               + 2 * GridUnits(T.MACD[i])
                      got   == (MACD_SIGNAL + 1) * GridUnits(T.Signal[i])
                  IN  got <= exact /\ exact < got + (MACD_SIGNAL + 1)
            /\ Rows(T) >= 2 =>
                  LET scale == (MACD_FAST + 1) * (MACD_SLOW + 1)
                      exact == (2 * (MACD_SLOW + 1) - 2 * (MACD_FAST + 1)) * EwmGrid
                               * (CloseInt(T, 2) - CloseInt(T, 1))
                  IN  Abs(scale * GridUnits(T.MACD[2]) - exact) < scale
            /\ WindowFlat(T, 1, Rows(T)) =>
                  \A i \in 1..Rows(T) : T.MACD[i] = Num(0) /\ T.Signal[i] = Num(0)

\* a series whose Close moves: MACD is 0 on the first row and not on the second
C9_Witness ==
    \E r \in IndicatorRefs :
        /\ Rows(heap[r]) >= 2
        /\ heap[r].MACD[1] = Num(0)
        /\ heap[r].MACD[2] # Num(0)
        /\ heap[r].Signal[2] # Num(0)

\* C10: on the same input the two variants of calculate_technical_indicators both
\* return None or both return a frame, and the two frames hold the same indicator
\* columns with the same values on every row
C10_VariantsAgree ==
    technical_indicators # Unset /\ root_indicators # Unset =>
        /\ (technical_indicators = None) <=> (root_indicators = None)
        /\ technical_indicators # None =>
              /\ technical_indicators \in DOMAIN heap /\ root_indicators \in DOMAIN heap
              /\ IndicatorColumns \subseteq DOMAIN heap[technical_indicators]
              /\ IndicatorColumns \subseteq DOMAIN heap[root_indicators]
              /\ \A c \in IndicatorColumns :
                    heap[technical_indicators][c] = heap[root_indicators][c]

\* both variants have run on a series of 20 rows or more, and their frames differ
\* only in being two objects
C10_Witness ==
    /\ technical_indicators \in DOMAIN heap
    /\ root_indicators \in DOMAIN heap
    /\ technical_indicators # root_indicators
    /\ Rows(heap[root_indicators]) >= BB_WINDOW
    /\ heap[root_indicators].MACD[2] # Num(0)
    /\ heap[technical_indicators].MACD = heap[root_indicators].MACD

\* C2 as stated: whatever was called on it, the caller's series has exactly the
\* columns and values it had when fetched, and the frame returned by
\* calculate_technical_indicators is another object
C2_FetchedSeriesUnchanged ==
    HasSeries =>
        /\ heap[price_data] = fetched
        /\ technical_indicators \in DOMAIN heap => technical_indicators # price_data

\* C1: the score is 0.3 * sentiment + 0.3 * technical + 0.2 * volume + 0.2 * c with
\* c = 0.7 for a beta below 0.8, 0.3 for a beta above 1.2 and 0.5 otherwise (a beta
\* from 0.8 to 1.2, no beta, an empty record); in hundredths, over the common
\* denominator of the three scores
C1_WeightedSum ==
    market_score # NotCalled =>
        LET s    == score_args.sentiment_score
            t    == score_args.technical_score
            v    == score_args.volume_score
            cd   == score_args.correlation_data
            beta == IF "beta" \in DOMAIN cd THEN cd["beta"] ELSE NaN
            c10  == IF IsNum(beta) /\ 10 * beta.n < 8 * beta.d THEN 7
                    ELSE IF IsNum(beta) /\ 10 * beta.n > 12 * beta.d THEN 3
                    ELSE 5
        IN  IF IsNum(s) /\ IsNum(t) /\ IsNum(v)
            THEN /\ IsNum(market_score)
                 /\ 100 * market_score.n * s.d * t.d * v.d
                        = market_score.d * (30 * s.n * t.d * v.d + 30 * t.n * s.d * v.d
                                            + 20 * v.n * s.d * t.d + 2 * c10 * s.d * t.d * v.d)
            ELSE IsNaN(market_score)

\* a score computed at the boundary beta = 0.8, where c stays 0.5
C1_Witness ==
    /\ market_score # NotCalled
    /\ "beta" \in DOMAIN score_args.correlation_data
    /\ score_args.correlation_data["beta"] = Frac(8, 10)
    /\ score_args.sentiment_score = Num(1)
    /\ score_args.technical_score = Num(1)
    /\ score_args.volume_score = Num(1)
    /\ market_score = Frac(9, 10)

\* C3: no outcome of fetch_price_data makes the run of main end in an unhandled
\* exception
C3_NoUnhandledException == pc # "raised"

=============================================================================
